---- MODULE Spec2Model ----
(***************************************************************************)
(* A model of lemlib::Chassis::turnTo and lemlib::Chassis::moveTo          *)
(* (src/src/lemlib/chassis/chassis.cpp) and of lemlib::AnyGyro             *)
(* (src/include/lemlib/devices/gyro/gyro.hpp).                             *)
(*                                                                         *)
(* Numbers.  Powers, distances and times are integers: powers in motor     *)
(* units, distances in the field's length unit, times in milliseconds.     *)
(* Angles are kept in degrees everywhere (moveTo works in radians and      *)
(* converts with degToRad / radToDeg; the model keeps the degree value),   *)
(* and are multiples of 30 so that the cosine is a table.  A product with  *)
(* a cosine and the quotient power / ratio are rounded toward zero.        *)
(***************************************************************************)
EXTENDS Integers, Sequences, FiniteSets, TLC

VARIABLES
    pc,        \* "idle" | "turnTo" | "moveTo" | "returned": where the caller's task is
    status,    \* what pros::competition::get_status() returns now
    now,       \* what pros::millis() returns now
    left,      \* last power given to drivetrain.leftMotors->move
    right,     \* last power given to drivetrain.rightMotors->move
    f,         \* the running call's arguments and locals
    t,         \* the locals of the last tick body that ran
    ticks,     \* number of tick bodies the running call has run
    exitWhy,   \* why the last loop ended: "none" | "status" | "settled"
    poly_gyro, \* AnyGyro::poly_gyro of every AnyGyro object
    heap,      \* the TypeErasedGyro objects made by new
    g,         \* the last member call on an AnyGyro: what was asked and what came back
    movedFrom  \* the AnyGyro objects that were the source of a move construction

vars == <<pc, status, now, left, right, f, t, ticks, exitWhy, poly_gyro, heap, g,
          movedFrom>>
chassisVars == <<pc, status, now, left, right, f, t, ticks, exitWhy>>
gyroVars == <<poly_gyro, heap, g, movedFrom>>

(***************************************************************************)
(* Bounds of the model and constants of the program                        *)
(***************************************************************************)
\* the clock stops the model here (no call is followed further)
MaxTime == 330
\* largest magnitude of a rotation, in radians
MaxRot == 2
\* number of AnyGyro objects the program can hold
NumObjs == 2
\* number of TypeErasedGyro objects the heap can hold
MaxGyros == 3

\* pros::delay(10) at the end of every tick
TickMs == 10
\* moveTo keeps looping while millis() - start < 300
MinRunMs == 300
\* moveTo: pose.distance(target) < 7.5, written as 2 * distance < 15
CloseDistX2 == 15
\* moveTo: the floor of the close-mode speed cap
CloseFloor == 30

(***************************************************************************)
(* Arithmetic                                                              *)
(***************************************************************************)
Abs(x) == IF x < 0 THEN -x ELSE x

Max(a, b) == IF a > b THEN a ELSE b

\* division rounded toward zero
TruncDiv(a, b) ==
    IF (a >= 0) = (b > 0) THEN Abs(a) \div Abs(b) ELSE -(Abs(a) \div Abs(b))

\* C fmod: the result has the sign of the dividend
fmod(a, m) == IF a >= 0 THEN a % m ELSE -((-a) % m)

\* cos of an angle in degrees, times 1000 (multiples of 30 only)
CosMilli(deg) ==
    LET d == deg % 360 IN
    CASE d = 0 -> 1000
      [] d \in {30, 330} -> 866
      [] d \in {60, 300} -> 500
      [] d \in {90, 270} -> 0
      [] d \in {120, 240} -> -500
      [] d \in {150, 210} -> -866
      [] d = 180 -> -1000

\* sin of an angle in degrees, times 1000
SinMilli(deg) == CosMilli(deg - 90)

\* p * c where c is a cosine
TimesCos(p, cosMilli) == TruncDiv(p * cosMilli, 1000)

\* atan2(dy, dx) in degrees, for a direction along an axis; atan2(0, 0) = 0
Atan2Deg(dy, dx) ==
    CASE dy = 0 /\ dx >= 0 -> 0
      [] dy = 0 /\ dx < 0 -> 180
      [] dx = 0 /\ dy > 0 -> 90
      [] dx = 0 /\ dy < 0 -> -90

RECURSIVE ISqrtFrom(_, _)
ISqrtFrom(n, r) == IF (r + 1) * (r + 1) > n THEN r ELSE ISqrtFrom(n, r + 1)

\* the square root, exact on the squares the model's poses produce
ISqrt(n) == ISqrtFrom(n, 0)

(***************************************************************************)
(* lemlib utilities and Pose (util.cpp, pose.cpp)                          *)
(***************************************************************************)
\* angleError: the shortest signed difference target - current, in (-180, 180]
angleError(target, current) ==
    LET d == (target - current) % 360 IN IF d > 180 THEN d - 360 ELSE d

sgn(x) == IF x < 0 THEN -1 ELSE IF x > 0 THEN 1 ELSE 0

\* slew: move from current toward target by at most maxChange
slew(target, current, maxChange) ==
    LET change == target - current IN
    IF change > maxChange THEN current + maxChange
    ELSE IF change < -maxChange THEN current - maxChange
    ELSE target

\* std::clamp(v, lo, hi)
clamp(v, lo, hi) == IF v < lo THEN lo ELSE IF hi < v THEN hi ELSE v

Pose(x, y, theta) == [x |-> x, y |-> y, theta |-> theta]

\* Pose::distance
distance(p, q) == ISqrt((p.x - q.x) * (p.x - q.x) + (p.y - q.y) * (p.y - q.y))

\* Pose::angle: atan2(other.y - y, other.x - x)
angle(p, q) == Atan2Deg(q.y - p.y, q.x - p.x)

(***************************************************************************)
(* The chassis as constructed, and what the sensors and callers can give   *)
(***************************************************************************)
\* Chassis::angularSettings and Chassis::lateralSettings (times in ms)
angularSettings ==
    [kP |-> 2, kD |-> 1, largeError |-> 30, smallError |-> 1,
     largeErrorTimeout |-> 40, smallErrorTimeout |-> 20, slew |-> 0]

lateralSettings ==
    [kP |-> 10, kD |-> 3, largeError |-> 8, smallError |-> 1,
     largeErrorTimeout |-> 40, smallErrorTimeout |-> 20, slew |-> 40]

\* the values pros::competition::get_status() can return
Statuses == {0, 1}

\* the poses lemlib::getPose can return: on the y axis, heading in degrees
Poses == {Pose(0, -24, 0), Pose(0, -24, 30), Pose(0, -6, 0)}

\* the arguments callers give
TurnTargets == {<<0, 10>>, <<0, -30>>}
TurnTimeouts == {30, 50}
TurnMaxSpeeds == {-10, 0, 50}
MoveTargets == {Pose(0, 0, 0)}
MoveTimeouts == {100, 320}
MoveMaxSpeeds == {20, 120}
\* lead, as numerator and denominator
MoveLeads == {<<1, 2>>}

(***************************************************************************)
(* FAPID (pid.cpp): a PD controller with its exit condition                *)
(***************************************************************************)
\* FAPID(0, 0, kP, 0, kD, name) followed by setExit(..., maxTime)
NewPID(s, maxTime, startTime) ==
    [kP |-> s.kP, kD |-> s.kD,
     largeError |-> s.largeError, smallError |-> s.smallError,
     largeTime |-> s.largeErrorTimeout, smallTime |-> s.smallErrorTimeout,
     maxTime |-> maxTime, startTime |-> startTime,
     prevError |-> 0, largeTimer |-> 0, smallTimer |-> 0, lastCheck |-> startTime]

\* FAPID::update(target, current): the controller after the update
PIDAfterUpdate(p, target, current) == [p EXCEPT !.prevError = target - current]

\* FAPID::update(target, current): the power returned (dt is one tick)
PIDOutput(p, target, current) ==
    LET error == target - current
        derivative == error - p.prevError
    IN p.kP * error + p.kD * derivative

\* a timer accumulates time; it is kept up to its threshold, where it has fired
Accumulate(timer, dt, threshold) ==
    IF timer + dt >= threshold THEN threshold ELSE timer + dt

\* FAPID::settled(): the controller after the timers are brought up to date
PIDAfterSettled(p, nowT) ==
    LET dt == nowT - p.lastCheck
        e == Abs(p.prevError)
    IN IF e <= p.smallError
         THEN [p EXCEPT !.smallTimer = Accumulate(@, dt, p.smallTime), !.lastCheck = nowT]
       ELSE IF e <= p.largeError
         THEN [p EXCEPT !.smallTimer = 0, !.largeTimer = Accumulate(@, dt, p.largeTime),
                        !.lastCheck = nowT]
       ELSE [p EXCEPT !.smallTimer = 0, !.largeTimer = 0, !.lastCheck = nowT]

\* FAPID::settled(): the value returned
PIDSettled(p, nowT) ==
    LET q == PIDAfterSettled(p, nowT)
        e == Abs(p.prevError)
    IN \/ e <= q.smallError /\ q.smallTimer >= q.smallTime
       \/ e > q.smallError /\ e <= q.largeError /\ q.largeTimer >= q.largeTime
       \/ q.maxTime # 0 /\ nowT - q.startTime >= q.maxTime

(***************************************************************************)
(* Chassis::turnTo                                                         *)
(***************************************************************************)
NoFrame == [fn |-> "none"]
NoTick == [fn |-> "none"]

\* the call up to the loop: compState is read and the controller created
TurnToCall ==
    /\ pc = "idle"
    /\ \E xy \in TurnTargets, timeout \in TurnTimeouts, reversed \in BOOLEAN,
          maxSpeed \in TurnMaxSpeeds :
         f' = [fn |-> "turnTo", x |-> xy[1], y |-> xy[2], timeout |-> timeout,
               reversed |-> reversed, maxSpeed |-> maxSpeed, compState |-> status,
               pid |-> NewPID(angularSettings, timeout, now)]
    /\ pc' = "turnTo"
    /\ UNCHANGED <<status, now, left, right, t, ticks, exitWhy, gyroVars>>

\* the while condition without its exit condition
TurnToLoopCond_NoSettle == status = f.compState

\* the while condition of turnTo, as read now
TurnToLoopCond == status = f.compState /\ ~PIDSettled(f.pid, now)

\* the cap without its lower side
CapSpeed_UpperOnly(motorPower, maxSpeed) ==
    IF motorPower > maxSpeed THEN maxSpeed ELSE motorPower

\* "cap the speed"
CapSpeed(motorPower, maxSpeed) ==
    IF motorPower > maxSpeed THEN maxSpeed
    ELSE IF motorPower < -maxSpeed THEN -maxSpeed
    ELSE motorPower

\* the body of turnTo's loop for the pose read in it
TurnToBody(fr, p) ==
    LET theta == IF fr.reversed THEN fmod(p.theta - 180, 360) ELSE fmod(p.theta, 360)
        deltaX == fr.x - p.x
        deltaY == fr.y - p.y
        targetTheta == fmod(90 - Atan2Deg(deltaY, deltaX), 360)
        deltaTheta == angleError(targetTheta, theta)
        output == PIDOutput(fr.pid, 0, deltaTheta)
        motorPower == CapSpeed(output, fr.maxSpeed)
    IN [fn |-> "turnTo", output |-> output,
        leftPower |-> -motorPower, rightPower |-> motorPower,
        pid |-> PIDAfterUpdate(fr.pid, 0, deltaTheta)]

\* one pass of the loop: the condition holds, the body runs, delay(10)
TurnToTick ==
    /\ pc = "turnTo"
    /\ now < MaxTime
    /\ TurnToLoopCond
    /\ \E p \in Poses :
       \E b \in {TurnToBody([f EXCEPT !.pid = PIDAfterSettled(f.pid, now)], p)} :
         /\ t' = [fn |-> "turnTo", output |-> b.output]
         /\ f' = [f EXCEPT !.pid = b.pid]
         /\ left' = b.leftPower
         /\ right' = b.rightPower
    /\ ticks' = ticks + 1
    /\ now' = now + TickMs
    /\ UNCHANGED <<pc, status, exitWhy, gyroVars>>

\* the condition fails: the drivetrain is stopped and turnTo returns
TurnToExit ==
    /\ pc = "turnTo"
    /\ ~TurnToLoopCond
    /\ exitWhy' = IF status # f.compState THEN "status" ELSE "settled"
    /\ left' = 0
    /\ right' = 0
    /\ pc' = "returned"
    /\ UNCHANGED <<status, now, f, t, ticks, gyroVars>>

(***************************************************************************)
(* Chassis::moveTo                                                         *)
(***************************************************************************)
\* the call up to the loop
MoveToCall ==
    /\ pc = "idle"
    /\ \E target \in MoveTargets, timeout \in MoveTimeouts, lead \in MoveLeads,
          maxSpeed \in MoveMaxSpeeds :
         f' = [fn |-> "moveTo",
               target |-> [target EXCEPT !.theta = fmod(target.theta, 360)],
               timeout |-> timeout, lead |-> lead,
               maxSpeedArg |-> maxSpeed, maxSpeed |-> maxSpeed,
               prevLateralPower |-> 0, close |-> FALSE, nearBefore |-> FALSE,
               start |-> now, compState |-> status,
               lateralPID |-> NewPID(lateralSettings, timeout, now),
               angularPID |-> NewPID(angularSettings, 0, now)]
    /\ pc' = "moveTo"
    /\ UNCHANGED <<status, now, left, right, t, ticks, exitWhy, gyroVars>>

\* the while condition of moveTo, as read now
MoveToLoopCond ==
    /\ status = f.compState
    /\ (~PIDSettled(f.lateralPID, now) \/ now - f.start < MinRunMs)

\* pose.distance(target) < 7.5
Near(p, target) == 2 * distance(p, target) < CloseDistX2

\* "calculate carrot point", and the two "if (close)" that follow
Carrot(close, p, target, lead) ==
    LET targetDist == distance(target, p)
        cx == target.x - TruncDiv(SinMilli(target.theta) * lead[1] * targetDist, 1000 * lead[2])
        cy == target.y - TruncDiv(CosMilli(target.theta) * lead[1] * targetDist, 1000 * lead[2])
        c == Pose(cx, cy, target.theta)
    IN IF close THEN target ELSE [c EXCEPT !.theta = 90 - angle(p, c)]

\* lateralError, and its "if (close)"
LateralError(close, p, carrot, target, angularError1) ==
    IF close
    THEN TimesCos(distance(p, target), CosMilli(angleError(90 - angle(p, target), p.theta)))
    ELSE TimesCos(distance(p, carrot), CosMilli(angularError1))

\* the slew limit applied in close mode instead of outside it
SlewStep_Inverted(close, lateralPower, prevLateralPower, s) ==
    IF close THEN slew(lateralPower, prevLateralPower, s) ELSE lateralPower

\* "limit the acceleration except when the robot is close to the target"
SlewStep(close, lateralPower, prevLateralPower, s) ==
    IF ~close THEN slew(lateralPower, prevLateralPower, s) ELSE lateralPower

\* "make the robot overturn"
Overturn(lateralPower, angularPower, maxSpeed) ==
    LET overturn == Abs(angularPower) + Abs(lateralPower) - maxSpeed IN
    IF overturn > 0 THEN lateralPower - sgn(lateralPower) * overturn ELSE lateralPower

\* close following the distance instead of latching
CloseAfter_NotLatched(close, near) == near

\* "if the robot is close to the target, change some behavior": close
CloseAfter(close, near) == close \/ near

\* "if the robot is close to the target, change some behavior": maxSpeed
MaxSpeedAfter(maxSpeed, near, prevLateralPower) ==
    IF near
    THEN (IF Abs(prevLateralPower) < CloseFloor THEN CloseFloor ELSE Abs(prevLateralPower))
    ELSE maxSpeed

\* "ratio the speeds to respect the max speed"
Ratio(power, leftPower, rightPower, maxSpeed) ==
    LET m == Max(Abs(leftPower), Abs(rightPower)) IN
    IF m > maxSpeed THEN TruncDiv(power * maxSpeed, m) ELSE power

\* One pass of the loop: the condition holds, the body runs, delay(10).
\* Each local of the body is bound to its value by \E local \in {value}.
MoveToTick ==
    /\ pc = "moveTo"
    /\ now < MaxTime
    /\ MoveToLoopCond
    /\ \E p0 \in Poses :
       \E lateralPID \in {PIDAfterSettled(f.lateralPID, now)} :
       \E p \in {[p0 EXCEPT !.theta = fmod(p0.theta, 360)]} :
       \E carrot \in {Carrot(f.close, p, f.target, f.lead)} :
       \E angularError1 \in {angleError(carrot.theta, p.theta)} :
       \E angularError2 \in {angleError(carrot.theta + 180, p.theta)} :
       \E angularError \in {IF Abs(angularError1) < Abs(angularError2)
                            THEN angularError1 ELSE angularError2} :
       \E lateralError \in {LateralError(f.close, p, carrot, f.target, angularError1)} :
       \E capped \in {clamp(PIDOutput(lateralPID, lateralError, 0), -f.maxSpeed, f.maxSpeed)} :
       \E slewed \in {SlewStep(f.close, capped, f.prevLateralPower, lateralSettings.slew)} :
       \E scaled \in {TimesCos(slewed, Abs(CosMilli(angularError)))} :
       \E angularPower \in {PIDOutput(f.angularPID, angularError, 0)} :
       \E lateralPower \in {Overturn(scaled, angularPower, f.maxSpeed)} :
       \E near \in {Near(p, f.target)} :
       \E maxSpeed \in {MaxSpeedAfter(f.maxSpeed, near, f.prevLateralPower)} :
       \E leftPower \in {lateralPower + angularPower} :
       \E rightPower \in {lateralPower - angularPower} :
         /\ left' = Ratio(leftPower, leftPower, rightPower, maxSpeed)
         /\ right' = Ratio(rightPower, leftPower, rightPower, maxSpeed)
         /\ f' = [f EXCEPT !.close = CloseAfter(f.close, near), !.maxSpeed = maxSpeed,
                           !.nearBefore = @ \/ near,
                           !.prevLateralPower = lateralPower,
                           !.lateralPID = PIDAfterUpdate(lateralPID, lateralError, 0),
                           !.angularPID = PIDAfterUpdate(f.angularPID, angularError, 0)]
         /\ t' = [fn |-> "moveTo", at |-> now, close |-> f.close,
                  nearBefore |-> f.nearBefore, near |-> near,
                  maxSpeed |-> f.maxSpeed, prevLateralPower |-> f.prevLateralPower,
                  carrot |-> carrot, capped |-> capped, slewed |-> slewed,
                  scaled |-> scaled,
                  angularPower |-> angularPower, lateralPower |-> lateralPower]
    /\ ticks' = ticks + 1
    /\ now' = now + TickMs
    /\ UNCHANGED <<pc, status, exitWhy, gyroVars>>

\* moveTo returning with only the left side stopped
MoveToExit_LeftOnly ==
    /\ pc = "moveTo"
    /\ ~MoveToLoopCond
    /\ exitWhy' = IF status # f.compState THEN "status" ELSE "settled"
    /\ left' = 0
    /\ pc' = "returned"
    /\ UNCHANGED <<status, now, right, f, t, ticks, gyroVars>>

\* the condition fails: the drivetrain is stopped and moveTo returns
MoveToExit ==
    /\ pc = "moveTo"
    /\ ~MoveToLoopCond
    /\ exitWhy' = IF status # f.compState THEN "status" ELSE "settled"
    /\ left' = 0
    /\ right' = 0
    /\ pc' = "returned"
    /\ UNCHANGED <<status, now, f, t, ticks, gyroVars>>

(***************************************************************************)
(* AnyGyro (gyro.hpp)                                                      *)
(***************************************************************************)
Objs == 1 .. NumObjs
HeapIds == 1 .. MaxGyros
Rotations == 0 .. MaxRot
\* poly_gyro of an object that does not exist, and the null pointer
NoObject == -1
Null == 0

\* a heap cell that holds no object
FreeCell == [live |-> FALSE, rotation |-> 0, calibrating |-> FALSE]
\* T actual_gyro, a gyro at rest
NewGyro == [live |-> TRUE, rotation |-> 0, calibrating |-> FALSE]

\* whether new finds room, and the cell it returns (the lowest free one)
HasFree(hp) == \E h \in HeapIds : ~hp[h].live
NewCell(hp) == CHOOSE h \in HeapIds : ~hp[h].live /\ \A k \in HeapIds : k < h => hp[k].live

NoCall == [op |-> "none"]

\* gyroCalibrate(gyro, blocking): the gyro on return, calibrated if it blocked
gyroCalibrate(dev, blocking) == [dev EXCEPT !.calibrating = ~blocking]

\* bool gyroGetRotation(gyro): the rotation comes back through a bool
gyroGetRotation(dev) == dev.rotation # 0

\* gyroSetRotation(gyro, rotation)
gyroSetRotation(dev, rotation) == [dev EXCEPT !.rotation = rotation]

\* the conversion of a bool to the float that getRotation returns
BoolToFloat(b) == IF b THEN 1 ELSE 0

\* the blocking that AnyGyro::calibrate(blocking) gives to IGyro::calibrate
CalibrateArg(blocking) == FALSE

\* TypeErasedGyro::getRotation
TypeErasedGetRotation(dev) == BoolToFloat(gyroGetRotation(dev))

\* a call through a null poly_gyro: the behaviour is undefined from here on,
\* and nothing that follows it is modelled
NullDereference(o, call) == g' = [op |-> "crash", obj |-> o, call |-> call]

\* new TypeErasedGyro<T>(gyro)
AnyGyroConstruct ==
    /\ g.op # "crash"
    /\ HasFree(heap)
    /\ \E o \in Objs :
         /\ poly_gyro[o] = NoObject
         /\ heap' = [heap EXCEPT ![NewCell(heap)] = NewGyro]
         /\ poly_gyro' = [poly_gyro EXCEPT ![o] = NewCell(heap)]
    /\ g' = NoCall
    /\ UNCHANGED <<movedFrom, chassisVars>>

\* a copy constructor that copies the pointer instead of cloning the gyro
CopyConstruct_Shared(o, old) ==
    /\ poly_gyro[o] = NoObject
    /\ poly_gyro[old] # NoObject
    /\ poly_gyro' = [poly_gyro EXCEPT ![o] = poly_gyro[old]]
    /\ g' = NoCall
    /\ UNCHANGED <<heap, movedFrom, chassisVars>>

\* AnyGyro o(old): poly_gyro(old_gyro.poly_gyro->clone())
CopyConstruct(o, old) ==
    /\ poly_gyro[o] = NoObject
    /\ poly_gyro[old] # NoObject
    /\ IF poly_gyro[old] = Null
       THEN /\ NullDereference(old, "clone")
            /\ UNCHANGED <<poly_gyro, heap>>
       ELSE /\ HasFree(heap)
            /\ heap' = [heap EXCEPT ![NewCell(heap)] = heap[poly_gyro[old]]]
            /\ poly_gyro' = [poly_gyro EXCEPT ![o] = NewCell(heap)]
            /\ g' = NoCall
    /\ UNCHANGED <<movedFrom, chassisVars>>

\* AnyGyro(const AnyGyro&)
AnyGyroCopy ==
    /\ g.op # "crash"
    /\ \E o \in Objs, old \in Objs : CopyConstruct(o, old)

\* AnyGyro o(std::move(old)): poly_gyro(std::move(old_gyro.poly_gyro))
MoveConstruct(o, old) ==
    /\ poly_gyro[o] = NoObject
    /\ poly_gyro[old] # NoObject
    /\ poly_gyro' = [poly_gyro EXCEPT ![o] = poly_gyro[old], ![old] = Null]
    /\ movedFrom' = movedFrom \cup {old}
    /\ g' = NoCall
    /\ UNCHANGED <<heap, chassisVars>>

\* AnyGyro(AnyGyro&&)
AnyGyroMove ==
    /\ g.op # "crash"
    /\ \E o \in Objs, old \in Objs : MoveConstruct(o, old)

\* the heap after delete of the object a unique_ptr held
Deleted(hp, ptr) == IF ptr = Null THEN hp ELSE [hp EXCEPT ![ptr] = FreeCell]

\* o = from: the parameter old_gyro is copy-constructed from the argument,
\* then poly_gyro = std::move(old_gyro.poly_gyro)
CopyAssign(o, from) ==
    /\ poly_gyro[o] # NoObject
    /\ poly_gyro[from] # NoObject
    /\ IF poly_gyro[from] = Null
       THEN /\ NullDereference(from, "clone")
            /\ UNCHANGED <<poly_gyro, heap>>
       ELSE /\ HasFree(heap)
            /\ heap' = Deleted([heap EXCEPT ![NewCell(heap)] = heap[poly_gyro[from]]],
                               poly_gyro[o])
            /\ poly_gyro' = [poly_gyro EXCEPT ![o] = NewCell(heap)]
            /\ g' = NoCall
    /\ UNCHANGED <<movedFrom, chassisVars>>

\* operator=(AnyGyro old_gyro) with the argument copied into old_gyro
AnyGyroAssignCopy ==
    /\ g.op # "crash"
    /\ \E o \in Objs, from \in Objs : CopyAssign(o, from)

\* o = std::move(from): the parameter old_gyro is move-constructed from the
\* argument, then poly_gyro = std::move(old_gyro.poly_gyro)
MoveAssign(o, from) ==
    /\ poly_gyro[o] # NoObject
    /\ poly_gyro[from] # NoObject
    /\ IF o = from
       THEN UNCHANGED <<poly_gyro, heap>>
       ELSE /\ heap' = Deleted(heap, poly_gyro[o])
            /\ poly_gyro' = [poly_gyro EXCEPT ![o] = poly_gyro[from], ![from] = Null]
    /\ movedFrom' = movedFrom \cup {from}
    /\ g' = NoCall
    /\ UNCHANGED chassisVars

\* operator=(AnyGyro old_gyro) with the argument moved into old_gyro
AnyGyroAssignMove ==
    /\ g.op # "crash"
    /\ \E o \in Objs, from \in Objs : MoveAssign(o, from)

\* ~AnyGyro()
AnyGyroDestroy ==
    /\ g.op # "crash"
    /\ \E o \in Objs :
         /\ poly_gyro[o] # NoObject
         /\ heap' = Deleted(heap, poly_gyro[o])
         /\ poly_gyro' = [poly_gyro EXCEPT ![o] = NoObject]
         /\ movedFrom' = movedFrom \ {o}
    /\ g' = NoCall
    /\ UNCHANGED chassisVars

\* o.calibrate(blocking)
Calibrate(o, blocking) ==
    /\ poly_gyro[o] # NoObject
    /\ IF poly_gyro[o] = Null
       THEN /\ NullDereference(o, "calibrate")
            /\ UNCHANGED heap
       ELSE \E failed \in BOOLEAN :
              /\ heap' = [heap EXCEPT ![poly_gyro[o]] =
                             gyroCalibrate(@, CalibrateArg(blocking))]
              /\ g' = [op |-> "calibrate", obj |-> o, blocking |-> blocking,
                       passed |-> CalibrateArg(blocking),
                       gyroResult |-> failed, result |-> failed]
    /\ UNCHANGED <<poly_gyro, movedFrom, chassisVars>>

\* AnyGyro::calibrate(blocking)
AnyGyroCalibrate ==
    /\ g.op # "crash"
    /\ \E o \in Objs, blocking \in BOOLEAN : Calibrate(o, blocking)

\* o.setRotation(rotation)
SetRotation(o, rotation) ==
    /\ poly_gyro[o] # NoObject
    /\ IF poly_gyro[o] = Null
       THEN /\ NullDereference(o, "setRotation")
            /\ UNCHANGED heap
       ELSE /\ heap' = [heap EXCEPT ![poly_gyro[o]] = gyroSetRotation(@, rotation)]
            /\ g' = [op |-> "setRotation", obj |-> o, rotation |-> rotation]
    /\ UNCHANGED <<poly_gyro, movedFrom, chassisVars>>

\* AnyGyro::setRotation(rotation)
AnyGyroSetRotation ==
    /\ g.op # "crash"
    /\ \E o \in Objs, rotation \in Rotations : SetRotation(o, rotation)

\* o.getRotation()
GetRotation(o) ==
    /\ poly_gyro[o] # NoObject
    /\ IF poly_gyro[o] = Null
       THEN NullDereference(o, "getRotation")
       ELSE g' = [op |-> "getRotation", obj |-> o,
                  rotation |-> heap[poly_gyro[o]].rotation,
                  result |-> TypeErasedGetRotation(heap[poly_gyro[o]])]
    /\ UNCHANGED <<poly_gyro, heap, movedFrom, chassisVars>>

\* AnyGyro::getRotation()
AnyGyroGetRotation ==
    /\ g.op # "crash"
    /\ \E o \in Objs : GetRotation(o)

\* the robot turns, or a calibration in progress ends
GyroEnvironment ==
    /\ g.op # "crash"
    /\ \E h \in HeapIds :
         /\ heap[h].live
         /\ \/ \E r \in Rotations \ {heap[h].rotation} :
                 heap' = [heap EXCEPT ![h].rotation = r]
            \/ /\ heap[h].calibrating
               /\ heap' = [heap EXCEPT ![h].calibrating = FALSE]
    /\ g' = NoCall
    /\ UNCHANGED <<poly_gyro, movedFrom, chassisVars>>

\* the field controller changes the competition status
CompetitionChange ==
    /\ \E s \in Statuses \ {status} : status' = s
    /\ UNCHANGED <<pc, now, left, right, f, t, ticks, exitWhy, gyroVars>>

Init ==
    /\ pc = "idle"
    /\ status \in Statuses
    /\ now = 0
    /\ left = 0
    /\ right = 0
    /\ f = NoFrame
    /\ t = NoTick
    /\ ticks = 0
    /\ exitWhy = "none"
    /\ poly_gyro = [o \in Objs |-> NoObject]
    /\ heap = [h \in HeapIds |-> FreeCell]
    /\ g = NoCall
    /\ movedFrom = {}

Next ==
    \/ TurnToCall
    \/ TurnToTick
    \/ TurnToExit
    \/ MoveToCall
    \/ MoveToTick
    \/ MoveToExit
    \/ CompetitionChange

Spec == Init /\ [][Next]_vars

\* turnTo alone, with the scheduler running the caller's task
NextTurn ==
    \/ TurnToCall
    \/ TurnToTick
    \/ TurnToExit
    \/ CompetitionChange

\* the caller's task in turnTo: whichever of the two the loop condition selects
TurnToStep == TurnToTick \/ TurnToExit

FairTurn == Init /\ [][NextTurn]_vars /\ WF_vars(TurnToStep)

\* the AnyGyro objects alone
NextGyro ==
    \/ AnyGyroConstruct
    \/ AnyGyroCopy
    \/ AnyGyroMove
    \/ AnyGyroAssignCopy
    \/ AnyGyroAssignMove
    \/ AnyGyroDestroy
    \/ AnyGyroCalibrate
    \/ AnyGyroSetRotation
    \/ AnyGyroGetRotation
    \/ GyroEnvironment

SpecGyro == Init /\ [][NextGyro]_vars

\* the lifetime of the AnyGyro objects: construction, copy, move, assignment
\* and destruction, with the member calls that leave the rotation alone
NextOwn ==
    \/ AnyGyroConstruct
    \/ AnyGyroCopy
    \/ AnyGyroMove
    \/ AnyGyroAssignCopy
    \/ AnyGyroAssignMove
    \/ AnyGyroDestroy
    \/ AnyGyroCalibrate
    \/ AnyGyroGetRotation

SpecOwn == Init /\ [][NextOwn]_vars

(***************************************************************************)
(* The claims                                                              *)
(***************************************************************************)
Running == pc \in {"turnTo", "moveTo"}

\* the while condition of the running call, as read now
LoopCond == IF pc = "turnTo" THEN TurnToLoopCond ELSE MoveToLoopCond

\* C1: in turnTo and in moveTo, when the loop condition is read false
\* (settled, timed out, or the status differs from compState) the caller's
\* next step runs no tick body, gives power 0 to both sides and returns;
\* a returned call has left both sides at power 0.
C1_ZeroPowerOnExit ==
    /\ [](pc = "returned" => left = 0 /\ right = 0)
    /\ [][(Running /\ ~LoopCond /\ status' = status)
            => (pc' = "returned" /\ ticks' = ticks /\ left' = 0 /\ right' = 0)]_vars

\* moveTo returned on a status change after a tick that drove the wheels
C1_Witness ==
    /\ pc = "returned"
    /\ f.fn = "moveTo"
    /\ exitWhy = "status"
    /\ ticks > 0
    /\ t.lateralPower # 0

\* C2: in every tick of moveTo called with maxSpeed > 0, the powers given to
\* the left and to the right side have magnitude at most that maxSpeed.
C2_PowerWithinCallerMax ==
    (pc = "moveTo" /\ ticks > 0 /\ f.maxSpeedArg > 0)
        => (Abs(left) <= f.maxSpeedArg /\ Abs(right) <= f.maxSpeedArg)

\* C3: moveTo called with timeout T > 0 runs no tick body once T ms (and one
\* tick of 10 ms) have passed since the motion started.
C3_NoTickAfterTimeout ==
    (t.fn = "moveTo" /\ f.timeout > 0) => t.at - f.start < f.timeout + TickMs

\* C4: every call of turnTo with timeout > 0 returns.
C4_TurnToReturns == (pc = "turnTo" /\ f.timeout > 0) ~> (pc = "returned")

\* turnTo returned on its timeout alone: the status is the one it started
\* with and the last error is outside both bands
C4_Witness ==
    /\ pc = "returned"
    /\ f.fn = "turnTo"
    /\ exitWhy = "settled"
    /\ status = f.compState
    /\ Abs(f.pid.prevError) > f.pid.largeError
    /\ now - f.pid.startTime >= f.timeout

\* C5: in every tick of turnTo with maxSpeed >= 0 the power given to the left
\* side is the negation of the power given to the right side, and both have
\* magnitude at most maxSpeed.
C5_TurnToOpposite ==
    (pc = "turnTo" /\ ticks > 0 /\ f.maxSpeed >= 0)
        => (left = -right /\ Abs(left) <= f.maxSpeed /\ Abs(right) <= f.maxSpeed)

\* a tick of turnTo whose controller output was beyond the cap
C5_Witness ==
    /\ pc = "turnTo"
    /\ ticks > 0
    /\ f.maxSpeed > 0
    /\ t.output < -f.maxSpeed
    /\ right = -f.maxSpeed
    /\ left = f.maxSpeed

\* C6: AnyGyro::calibrate(blocking) gives the wrapped gyro the caller's
\* blocking (so the gyro is calibrated when calibrate(true) returns) and
\* returns the wrapped gyro's result.
C6_CalibratePassesBlocking ==
    g.op = "calibrate"
        => /\ g.passed = g.blocking
           /\ g.result = g.gyroResult
           /\ g.blocking => ~heap[poly_gyro[g.obj]].calibrating

\* C7: getRotation() called right after setRotation(r) on the same AnyGyro
\* returns r.
C7_GetRotationReturnsSet ==
    [][(g.op = "setRotation" /\ g'.op = "getRotation" /\ g'.obj = g.obj)
         => g'.result = g.rotation]_vars

\* C8, as amended: in every tick of moveTo that comes after a tick of the same
\* call in which the robot was within 7.5 of the target, the carrot is the
\* target pose (position and heading), wherever the robot is now.
C8_CarrotIsTargetAfterNear ==
    (t.fn = "moveTo" /\ t.nearBefore) => t.carrot = f.target

\* a tick with the robot away from the target again, after one within 7.5
C8_Witness ==
    /\ t.fn = "moveTo"
    /\ t.nearBefore
    /\ ~t.near
    /\ t.carrot = f.target

\* C8, as claimed: also in the tick in which the robot is first within 7.5
\* of the target the carrot is the target pose.
C8_CarrotIsTargetOnceNear ==
    (t.fn = "moveTo" /\ (t.near \/ t.nearBefore)) => t.carrot = f.target

\* C9: the overturn correction leaves the lateral power alone when
\* |angularPower| + |lateralPower| is within the cap, and otherwise gives a
\* lateral power no larger in magnitude and not of the opposite sign.
C9_OverturnReducesLateral ==
    t.fn = "moveTo"
        => IF Abs(t.angularPower) + Abs(t.scaled) > t.maxSpeed
           THEN Abs(t.lateralPower) <= Abs(t.scaled) /\ t.lateralPower * t.scaled >= 0
           ELSE t.lateralPower = t.scaled

\* C10, as amended: in a tick of moveTo entered with close mode off, the
\* lateral power that leaves the slew step differs from the previous tick's
\* lateral power by at most the slew setting; in a tick entered with close
\* mode on, the slew step leaves the capped lateral power as it is.
C10_SlewStepLimited ==
    t.fn = "moveTo"
        => IF t.close
           THEN t.slewed = t.capped
           ELSE Abs(t.slewed - t.prevLateralPower) <= lateralSettings.slew

\* a tick outside close mode in which the slew limit held the power back
C10_Witness ==
    /\ t.fn = "moveTo"
    /\ ~t.close
    /\ Abs(t.capped - t.prevLateralPower) > lateralSettings.slew
    /\ Abs(t.slewed - t.prevLateralPower) = lateralSettings.slew

\* C10, as claimed, on the ticks whose overturn correction neither reversed
\* nor enlarged the lateral power: in a tick of moveTo entered with close mode
\* off, the lateral power used for the wheel commands differs from the
\* previous tick's by at most the slew setting.
C10_LateralPowerSlewLimited ==
    (/\ t.fn = "moveTo"
     /\ ~t.close
     /\ Abs(t.lateralPower) <= Abs(t.scaled)
     /\ t.lateralPower * t.scaled >= 0)
        => Abs(t.lateralPower - t.prevLateralPower) <= lateralSettings.slew

\* the AnyGyro objects that exist, and those that own a wrapped gyro
Existing == {o \in Objs : poly_gyro[o] # NoObject}
Owners == {o \in Objs : poly_gyro[o] \in HeapIds}

\* every wrapped gyro that an AnyGyro owns is a live object that no other
\* AnyGyro owns
SoleOwners ==
    \A o \in Owners :
        /\ heap[poly_gyro[o]].live
        /\ \A p \in Owners \ {o} : poly_gyro[p] # poly_gyro[o]

\* a member call on o, or a copy made of o
UsesWrapped(o) ==
    \/ \E blocking \in BOOLEAN : Calibrate(o, blocking)
    \/ \E rotation \in Rotations : SetRotation(o, rotation)
    \/ GetRotation(o)
    \/ \E p \in Objs : CopyConstruct(p, o) \/ CopyAssign(p, o)

\* a member call on o
MemberCall(o) ==
    \/ \E blocking \in BOOLEAN : Calibrate(o, blocking)
    \/ \E rotation \in Rotations : SetRotation(o, rotation)
    \/ GetRotation(o)

\* o is the source of a move in this step, or the target of a move whose
\* source holds null
MovedFromNow(o) == \E p \in Objs : MoveConstruct(p, o) \/ MoveAssign(p, o)
TakesNull(o) ==
    \E p \in Objs : poly_gyro[p] = Null /\ (MoveConstruct(o, p) \/ MoveAssign(o, p))

\* C11, as amended: as long as no null was dereferenced, every wrapped gyro
\* is owned by one AnyGyro only (a copy owns its own clone, a live object);
\* an AnyGyro comes to hold null only in a move, as the source of the move or
\* as the target of a move whose source holds null; and a member call on an
\* AnyGyro that holds null, or a copy of it, dereferences null, which no call
\* on an AnyGyro that owns a wrapped gyro does.
C11_OwnershipAndNull ==
    /\ [](g.op # "crash" => SoleOwners)
    /\ [][\A o \in Objs :
            /\ (poly_gyro[o] # Null /\ poly_gyro'[o] = Null)
                 => (MovedFromNow(o) \/ TakesNull(o))
            /\ (g.op # "crash" /\ poly_gyro[o] = Null /\ UsesWrapped(o))
                 => (g'.op = "crash" /\ g'.obj = o)
            /\ (g.op # "crash" /\ g'.op = "crash" /\ g'.obj = o)
                 => (poly_gyro[o] = Null /\ UsesWrapped(o))]_vars

\* getRotation() was called on an AnyGyro that holds null and was never the
\* source of a move
C11_Witness ==
    /\ g.op = "crash"
    /\ g.call = "getRotation"
    /\ poly_gyro[g.obj] = Null
    /\ g.obj \notin movedFrom
    /\ \E p \in Owners : p \notin movedFrom

\* C11: as long as no null was dereferenced, every AnyGyro that was never
\* the source of a move construction owns a wrapped gyro, no two AnyGyro own
\* the same wrapped gyro, only an AnyGyro that was the source of a move
\* construction holds null, and a member call on it dereferences null.
C11_NullOnlyIfMovedFrom ==
    /\ [](g.op # "crash" =>
            /\ SoleOwners
            /\ \A o \in Existing : (o \notin movedFrom) => poly_gyro[o] \in HeapIds
            /\ \A o \in Existing : poly_gyro[o] = Null => o \in movedFrom)
    /\ [][\A o \in Objs :
            (g.op # "crash" /\ poly_gyro[o] = Null /\ MemberCall(o))
                => (g'.op = "crash" /\ g'.obj = o)]_vars
====
